---- MODULE Spec2Model ----
(***************************************************************************)
(* Multi-agent linear system steered by model-predictive control.          *)
(*                                                                         *)
(*   src/src/optimizer/mpc_solver.py  the three quadratic programs         *)
(*   src/src/system.py                agents, clusters, MultiAgentSystem   *)
(*                                                                         *)
(* Numbers.  Vectors are tuples of integers, matrices are tuples of rows,  *)
(* a trajectory is the tuple of its columns (column t of the code is       *)
(* element t+1).  Values that the code obtains by halving or averaging     *)
(* (costs, centroids, average distances) are exact rationals               *)
(* [num |-> n, den |-> d], d > 0, compared by cross multiplication.        *)
(*                                                                         *)
(* The solver.  cvxpy's prob.solve is modelled by what it returns: some    *)
(* minimiser of the objective over the constraint set, and (None, inf)     *)
(* values when that set is empty.  The decision variables range over an    *)
(* integer lattice box that is computed from the problem data; when the    *)
(* objective has several minimisers the solver may return any of them.     *)
(* All agents have agent_dim = control_dim = 1 at system level, so that    *)
(* the Euclidean norm of system.py:113 is an absolute value.               *)
(***************************************************************************)
EXTENDS Integers, Sequences, FiniteSets, TLC

\* ------------------------------------------------------------------------
\* Values
\* ------------------------------------------------------------------------

\* Python's None; an optional argument is None or Some(v)
None == <<>>

Some(v) == <<v>>

Val(o) == o[1]

Abs(n) == IF n < 0 THEN -n ELSE n

Max2(a, b) == IF a < b THEN b ELSE a

RECURSIVE SeqSum(_)
SeqSum(s) == IF Len(s) = 0 THEN 0 ELSE Head(s) + SeqSum(Tail(s))

RECURSIVE SeqMax(_)
SeqMax(s) == IF Len(s) = 0 THEN 0 ELSE Max2(Head(s), SeqMax(Tail(s)))

RECURSIVE Pow(_, _)
Pow(b, e) == IF e = 0 THEN 1 ELSE b * Pow(b, e - 1)

Rat(n, d) == [num |-> n, den |-> d]

RatEq(p, q) == p.num * q.den = q.num * p.den

\* numpy: M @ v
MatVec(M, v) == [i \in 1..Len(M) |-> SeqSum([j \in 1..Len(v) |-> M[i][j] * v[j]])]

VecAdd(v, w) == [i \in 1..Len(v) |-> v[i] + w[i]]

VecSub(v, w) == [i \in 1..Len(v) |-> v[i] - w[i]]

\* cvxpy.quad_form(v, M) = v^T M v
QuadForm(v, M) == SeqSum([i \in 1..Len(v) |-> v[i] * MatVec(M, v)[i]])

MaxAbsVec(v) == SeqMax([i \in 1..Len(v) |-> Abs(v[i])])

\* the same of an optional vector and of an optional number, 0 for None
MaxAbsOpt(o) == IF o = None THEN 0 ELSE MaxAbsVec(Val(o))

MaxAbsNum(o) == IF o = None THEN 0 ELSE Abs(Val(o))

\* a cost value: a rational, or numpy's inf
Cost(n, d) == [inf |-> FALSE, num |-> n, den |-> d]

InfCost == [inf |-> TRUE, num |-> 0, den |-> 1]

CostEq(c, d) == IF c.inf \/ d.inf THEN c.inf = d.inf ELSE RatEq(c, d)

\* c + d of the code's floats
CostAdd(c, d) ==
    IF c.inf \/ d.inf THEN InfCost
    ELSE Cost(c.num * d.den + d.num * c.den, c.den * d.den)

\* (nx, nu) = B.shape
NumRows(M) == Len(M)

NumCols(M) == Len(M[1])

\* ------------------------------------------------------------------------
\* The lattice box of a problem
\* ------------------------------------------------------------------------

\* largest absolute row sum of A: how much one step with u = 0 can stretch
\* the largest component
Growth(A) == Max2(1, SeqMax([i \in 1..Len(A) |-> SeqSum([j \in 1..Len(A[i]) |-> Abs(A[i][j])])]))

\* How far the control bounds carry the state in one step: two bounds
\* confine the control, and the box holds every state they allow; a single
\* bound that excludes u = 0 pushes the state every step.
Drift(umax, umin) ==
    IF umax # None /\ umin # None
    THEN Max2(Abs(Val(umax)), Abs(Val(umin)))
    ELSE Max2(IF umin = None THEN 0 ELSE Max2(0, Val(umin)),
              IF umax = None THEN 0 ELSE Max2(0, -Val(umax)))

\* Box radius for the states: holds x0, the reference, every finite state
\* bound, the free motion A^t x0 and the forced drift.
StateRadius(A, B, N, x0, x_star_in, xmin, xmax, umax, umin) ==
    Pow(Growth(A), N)
      * (Max2(Max2(MaxAbsVec(x0), MaxAbsOpt(x_star_in)),
              Max2(MaxAbsOpt(xmin), MaxAbsOpt(xmax)))
         + N * Growth(B) * Drift(umax, umin))

\* Box radius for the controls: the bounds when there are two, and
\* otherwise enough to move between any two box states
ControlRadius(A, r, umax, umin) ==
    IF umax # None /\ umin # None
    THEN Max2(Abs(Val(umax)), Abs(Val(umin)))
    ELSE Max2((Growth(A) + 1) * r, Max2(MaxAbsNum(umax), MaxAbsNum(umin)))

Lattice(n, r) == [1..n -> (-r)..r]

\* ------------------------------------------------------------------------
\* Trajectories of x[t+1] = A x[t] + B u[t] from x[0] = x0
\* ------------------------------------------------------------------------

\* One more column: every lattice control whose successor is in the box.
Successors(A, B, S, Xs, Us) ==
    UNION { LET ax == MatVec(A, s.x[Len(s.x)])
            IN  { [x |-> Append(s.x, VecAdd(ax, MatVec(B, uu))), u |-> Append(s.u, uu)]
                  : uu \in { w \in Us : VecAdd(ax, MatVec(B, w)) \in Xs } }
            : s \in S }

RECURSIVE Extend(_, _, _, _, _, _)
Extend(A, B, k, S, Xs, Us) ==
    IF k = 0 THEN S ELSE Extend(A, B, k - 1, Successors(A, B, S, Xs, Us), Xs, Us)

\* The pairs (x, u) that satisfy the dynamics constraints (mpc_solver.py:36)
\* and the initial-state constraint (mpc_solver.py:60).
Dynamics(A, B, N, x0, r, ru) ==
    Extend(A, B, N, { [x |-> <<x0>>, u |-> <<>>] },
           Lattice(NumRows(B), r), Lattice(NumCols(B), ru))

\* ------------------------------------------------------------------------
\* The pieces of the three programs
\* ------------------------------------------------------------------------

VecLe(v, w) == \A i \in 1..Len(v) : v[i] <= w[i]

\* x[:, t] >= xmin[:, 0] and x[:, t] <= xmax[:, 0] for the columns `cols`
StateBounds(x, cols, xmin, xmax) ==
    \A t \in cols :
        /\ xmin # None => VecLe(Val(xmin), x[t + 1])
        /\ xmax # None => VecLe(x[t + 1], Val(xmax))

\* u <= umax and u >= umin, elementwise over the whole horizon
ControlBounds(u, umax, umin) ==
    \A t \in 1..Len(u) : \A i \in 1..Len(u[t]) :
        /\ umax # None => u[t][i] <= Val(umax)
        /\ umin # None => u[t][i] >= Val(umin)

\* twice the stage costs of t = 0..N-1:
\* quad_form(x[:, t] - x_star, Q) (or of x[:, t]) + quad_form(u[:, t], R)
TwiceStageCost(x, u, N, Q, R, x_star_in) ==
    SeqSum([t \in 1..N |->
        QuadForm(IF x_star_in # None THEN VecSub(x[t], Val(x_star_in)) ELSE x[t], Q)
        + QuadForm(u[t], R)])

\* twice the terminal cost quad_form(x[:, N], P): on x[N] itself
TwiceTerminalCost(x, N, P) == QuadForm(x[N + 1], P)

\* twice the coupling cost L_lambda * quad_form(x[:, t], L), t = 0..n-1
TwiceCouplingCost(x, n, L, L_lambda) ==
    SeqSum([t \in 1..n |-> L_lambda * QuadForm(x[t], Val(L))])

\* The agent pairs (idx, jdx) that get a norm2(...) >= coll_d constraint;
\* `last` is the exclusive end of the inner range.
CollisionPairs(n, last) ==
    { p \in (0..(n - 1)) \X (0..(n - 1)) : p[1] < p[2] /\ p[2] < last }

\* What a call hands back: three values, or an exception
Returned(x, u, c) == [raised |-> "", x |-> x, u |-> u, cost_val |-> c]

Raised(e) == [raised |-> e, x |-> None, u |-> None, cost_val |-> InfCost]

\* prob.solve and the reads of .value: every minimiser of `costed` (records
\* with the doubled objective in field c), or None and inf when there is
\* no feasible point.  The weights are positive semidefinite, so the
\* objective is bounded below and the program is never unbounded.
Minimisers(costed) ==
    LET vals == { s.c : s \in costed }
        best == CHOOSE c \in vals : \A d \in vals : c <= d
    IN  { s \in costed : s.c = best }

\* ------------------------------------------------------------------------
\* conventional_solve
\* ------------------------------------------------------------------------

\* constrlist without the dynamics and the initial state: state bounds on
\* the columns 0..N-1 (in the loop) and N (after it), control bounds
ConventionalConstraints(s, N, umax, umin, xmin, xmax) ==
    /\ StateBounds(s.x, 0..(N - 1), xmin, xmax)
    /\ StateBounds(s.x, {N}, xmin, xmax)
    /\ ControlBounds(s.u, umax, umin)

\* twice costlist
ConventionalObjective(s, N, Q, R, P, x_star_in) ==
    TwiceStageCost(s.x, s.u, N, Q, R, x_star_in) + TwiceTerminalCost(s.x, N, P)

ConventionalSolve(A, B, N, Q, R, P, x0, adim, umax, umin, xmin, xmax, x_star_in, coll_d) ==
    LET nx == NumRows(B)
        r == StateRadius(A, B, N, x0, x_star_in, xmin, xmax, umax, umin)
        feas == { s \in Dynamics(A, B, N, x0, r, ControlRadius(A, r, umax, umin)) :
                    ConventionalConstraints(s, N, umax, umin, xmin, xmax) }
        costed == { [x |-> s.x, u |-> s.u,
                     c |-> ConventionalObjective(s, N, Q, R, P, x_star_in)] : s \in feas }
    IN  IF coll_d # None /\ N > 0 /\ CollisionPairs(nx \div adim, nx \div adim) # {}
        THEN { Raised("DCPError") }
        ELSE IF feas = {}
        THEN { Returned(None, None, InfCost) }
        ELSE { Returned(s.x, s.u, Cost(s.c, 2)) : s \in Minimisers(costed) }

\* ------------------------------------------------------------------------
\* microcoupling_solve
\* ------------------------------------------------------------------------

MicrocouplingObjective(s, N_mic, Q, R, P, x_star_in, N_cpl, L, L_lambda) ==
    TwiceStageCost(s.x, s.u, N_mic, Q, R, x_star_in)
    + TwiceTerminalCost(s.x, N_mic, P)
    + (IF L # None THEN TwiceCouplingCost(s.x, N_cpl, L, L_lambda) ELSE 0)

MicrocouplingSolve(A, B, N_mic, Q, R, P, x0, adim, N_cpl, L, L_lambda, umax, umin, xmin, xmax, x_star_in, coll_d) ==
    LET nx == NumRows(B)
        r == StateRadius(A, B, N_mic, x0, x_star_in, xmin, xmax, umax, umin)
        feas == { s \in Dynamics(A, B, N_mic, x0, r, ControlRadius(A, r, umax, umin)) :
                    ConventionalConstraints(s, N_mic, umax, umin, xmin, xmax) }
        costed == { [x |-> s.x, u |-> s.u,
                     c |-> MicrocouplingObjective(s, N_mic, Q, R, P, x_star_in,
                                                  N_cpl, L, L_lambda)] : s \in feas }
    IN  IF L # None /\ N_cpl > N_mic + 1
        THEN { Raised("IndexError") }   \* x[:, t] past the last column
        ELSE IF coll_d # None /\ N_mic > 0
                /\ CollisionPairs(nx \div adim, (nx \div adim) - 1) # {}
        THEN { Raised("DCPError") }
        ELSE IF feas = {}
        THEN { Returned(None, None, InfCost) }
        ELSE { Returned(s.x, s.u, Cost(s.c, 2)) : s \in Minimisers(costed) }

\* ------------------------------------------------------------------------
\* mesocoupling_solve
\* ------------------------------------------------------------------------

\* the micro constraints of the `if L is not None` block: state bounds on
\* the columns 0..N_mic-1 of the loop, control bounds
MicroConstraints(s, N_mic, umax_mic, umin_mic, xmin_mic, xmax_mic) ==
    /\ StateBounds(s.x, 0..(N_mic - 1), xmin_mic, xmax_mic)
    /\ ControlBounds(s.u, umax_mic, umin_mic)

\* twice the micro costs: L_lambda * quad_form(x_mic[:, t], L)
\* + quad_form(u_mic[:, t], R_mic), t = 0..N_mic-1
MicroObjective(s, N_mic, R_mic, L, L_lambda) ==
    SeqSum([t \in 1..N_mic |->
        L_lambda * QuadForm(s.x[t], Val(L)) + QuadForm(s.u[t], R_mic)])

MesoReturned(xm, xc, um, uc, c) ==
    [raised |-> "", x_mes |-> xm, x_mic |-> xc, u_mes |-> um, u_mic |-> uc,
     cost_val |-> c]

MesoRaised(e) ==
    [raised |-> e, x_mes |-> None, x_mic |-> None, u_mes |-> None, u_mic |-> None,
     cost_val |-> InfCost]

\* (mutant) the micro constraints are added whether or not L is given
MicroHalfAlways(A_mic, B_mic, N_mic, R_mic, x0_mic, L, L_lambda, umax_mic, umin_mic, xmin_mic, xmax_mic) ==
    LET r == StateRadius(A_mic, B_mic, N_mic, x0_mic, None,
                         xmin_mic, xmax_mic, umax_mic, umin_mic)
    IN  { [x |-> IF L = None THEN None ELSE s.x, u |-> IF L = None THEN None ELSE s.u,
           c |-> IF L = None THEN 0 ELSE MicroObjective(s, N_mic, R_mic, L, L_lambda)]
          : s \in { q \in Dynamics(A_mic, B_mic, N_mic, x0_mic, r,
                                    ControlRadius(A_mic, r, umax_mic, umin_mic)) :
                      MicroConstraints(q, N_mic, umax_mic, umin_mic,
                                       xmin_mic, xmax_mic) } }

\* The micro half of the program: the one point "absent" when L is None
\* (x_mic and u_mic are then no variables of the problem and stay None).
MicroHalf(A_mic, B_mic, N_mic, R_mic, x0_mic, L, L_lambda, umax_mic, umin_mic, xmin_mic, xmax_mic) ==
    IF L = None THEN { [x |-> None, u |-> None, c |-> 0] }
    ELSE LET r == StateRadius(A_mic, B_mic, N_mic, x0_mic, None,
                              xmin_mic, xmax_mic, umax_mic, umin_mic)
         IN  { [x |-> s.x, u |-> s.u, c |-> MicroObjective(s, N_mic, R_mic, L, L_lambda)]
               : s \in { q \in Dynamics(A_mic, B_mic, N_mic, x0_mic, r,
                                         ControlRadius(A_mic, r, umax_mic, umin_mic)) :
                           MicroConstraints(q, N_mic, umax_mic, umin_mic,
                                            xmin_mic, xmax_mic) } }

MesocouplingSolve(A_mes, B_mes, N_mes, Q, R_mes, P, x0_mes, adim, A_mic, B_mic, N_mic, R_mic, x0_mic, L, L_lambda, umax_mes, umin_mes, umax_mic, umin_mic, xmin_mes, xmax_mes, xmin_mic, xmax_mic, x_star_in, coll_d) ==
    LET nx_mic == NumRows(B_mic)
        r == StateRadius(A_mes, B_mes, N_mes, x0_mes, x_star_in,
                         xmin_mes, xmax_mes, umax_mes, umin_mes)
        meso == { [x |-> s.x, u |-> s.u,
                   c |-> ConventionalObjective(s, N_mes, Q, R_mes, P, x_star_in)]
                  : s \in { q \in Dynamics(A_mes, B_mes, N_mes, x0_mes, r,
                                            ControlRadius(A_mes, r, umax_mes, umin_mes)) :
                              ConventionalConstraints(q, N_mes, umax_mes, umin_mes,
                                                      xmin_mes, xmax_mes) } }
        micro == MicroHalf(A_mic, B_mic, N_mic, R_mic, x0_mic, L, L_lambda,
                           umax_mic, umin_mic, xmin_mic, xmax_mic)
        \* The two halves share no variable and no constraint and costlist is
        \* the sum of their costs: the minimisers of the whole program are the
        \* pairs of a meso minimiser and a micro minimiser.
        best == IF meso = {} \/ micro = {} THEN {}
                ELSE { [mes |-> p[1], mic |-> p[2], c |-> p[1].c + p[2].c]
                       : p \in Minimisers(meso) \X Minimisers(micro) }
    IN  IF L # None /\ coll_d # None /\ N_mic > 0
           /\ CollisionPairs(nx_mic \div adim, (nx_mic \div adim) - 1) # {}
        THEN { MesoRaised("DCPError") }
        ELSE IF best = {}
        THEN { MesoReturned(None, None, None, None, InfCost) }
        ELSE { MesoReturned(s.mes.x, s.mic.x, s.mes.u, s.mic.u, Cost(s.c, 2))
               : s \in best }

\* ------------------------------------------------------------------------
\* State
\* ------------------------------------------------------------------------

VARIABLES
    agents,             \* the LinearAgentNd objects: index |-> [A, B, state, agent_dim]
    system_goal,        \* MultiAgentSystem.system_goal
    clust_algo,         \* MultiAgentSystem.clust_algo
    clust_algo_params,  \* MultiAgentSystem.clust_algo_params
    full_system_state,  \* MultiAgentSystem.full_system_state: one row per agent
    avg_goal_dist,      \* MultiAgentSystem.avg_goal_dist
    clust_labels,       \* MultiAgentSystem.clust_labels: agent index |-> label
    n_clusters,         \* MultiAgentSystem.n_clusters
    clusters,           \* the LinearClusterNd objects: cdx |-> [agents, n_agents,
                        \*   full_cluster_state, centroid]; a cluster holds its
                        \*   agents by reference, here by index into `agents`
    cluster_centroids,  \* MultiAgentSystem.cluster_centroids
    call,               \* the call in progress or just ended
    problem,            \* (solver on its own) the arguments of the call
    entry,              \* (solver on its own) the entry point called, "" before
    result              \* (solver on its own) what that call handed back

agentVars == <<agents>>

systemVars ==
    <<system_goal, clust_algo, clust_algo_params, full_system_state, avg_goal_dist,
      clust_labels, n_clusters, cluster_centroids>>

solverVars == <<problem, entry, result>>

vars == <<agents, systemVars, clusters, call, solverVars>>

\* MultiAgentSystem.n_agents, agent_dim and control_dim of the systems built
n_agents == 2

agent_dim == 1

control_dim == 1

AgentIds == 0..(n_agents - 1)

\* largest initial state and goal coordinate drawn; largest state an agent
\* is driven to by a direct propagate_input or set_state
MaxStart == 2

Mat1(k) == <<<<k>>>>

Eye(n) == [i \in 1..n |-> [j \in 1..n |-> IF i = j THEN 1 ELSE 0]]

\* ------------------------------------------------------------------------
\* LinearAgentNd
\* ------------------------------------------------------------------------

\* (mutant) the state transition matrix is left out
PropagateNoA(agent, control_val) ==
    [agent EXCEPT !.state = VecAdd(agent.state, MatVec(agent.B, control_val))]

\* propagate_input: self.state = self.A @ self.state + self.B @ control_val
AgentPropagate(agent, control_val) ==
    [agent EXCEPT !.state = VecAdd(MatVec(agent.A, agent.state),
                                   MatVec(agent.B, control_val))]

\* set_state: self.state = input_state (the shapes are asserted equal)
AgentSetState(agent, input_state) == [agent EXCEPT !.state = input_state]

\* ------------------------------------------------------------------------
\* LinearClusterNd
\* ------------------------------------------------------------------------

\* np.mean(rows, axis=0), exactly
Mean(rows) ==
    [j \in 1..agent_dim |-> Rat(SeqSum([i \in 1..Len(rows) |-> rows[i][j]]), Len(rows))]

\* (mutant) the mean of the rows gathered earlier, without reading the agents
CentroidFromStoredRows(cluster, ag) == [cluster EXCEPT !.centroid = Mean(cluster.full_cluster_state)]

\* update_centroid: full_cluster_state[idx] = (idx-th agent).state for every
\* idx, then centroid = mean of full_cluster_state
UpdateCentroid(cluster, ag) ==
    LET rows == [idx \in 1..cluster.n_agents |-> ag[cluster.agents[idx]].state]
    IN  [cluster EXCEPT !.full_cluster_state = rows, !.centroid = Mean(rows)]

\* The agents after cluster.propagate_input's loop: agent.propagate_input
\* for every value of the cluster's agents dictionary
PropagateToMembers(cluster, ag, control_val) ==
    [i \in DOMAIN ag |->
        IF \E idx \in 1..cluster.n_agents : cluster.agents[idx] = i
        THEN AgentPropagate(ag[i], control_val)
        ELSE ag[i]]

\* LinearClusterNd(agents, n_agents, agent_dim): `members` are the keys of
\* the agents dictionary in its order; full_cluster_state starts as zeros
\* and the constructor calls update_centroid
NewCluster(members, ag) ==
    UpdateCentroid([agents |-> members, n_agents |-> Len(members),
                    full_cluster_state |-> [idx \in 1..Len(members) |->
                                               [j \in 1..agent_dim |-> 0]],
                    centroid |-> [j \in 1..agent_dim |-> Rat(0, 1)]], ag)

\* ------------------------------------------------------------------------
\* Cluster identification
\* ------------------------------------------------------------------------

\* squared Euclidean distance of two rows
SqDist(v, w) == SeqSum([j \in 1..Len(v) |-> (v[j] - w[j]) * (v[j] - w[j])])

RECURSIVE Linked(_, _, _)
\* the rows reachable from the rows C by hops of length <= thresh
Linked(S, thresh, C) ==
    LET D == C \cup { j \in DOMAIN S :
                        \E i \in C : SqDist(S[i], S[j]) <= thresh * thresh }
    IN  IF D = C THEN C ELSE Linked(S, thresh, D)

\* a labelling that uses exactly the labels 0..K-1 for some K (K = 0: only -1)
LabelsUsed(f) == { f[i] : i \in DOMAIN f } \ {-1}

Contiguous(f) == LabelsUsed(f) = 0..(Cardinality(LabelsUsed(f)) - 1)

\* hcluster.fclusterdata(S, thresh, criterion='distance') - 1: single linkage
\* on Euclidean distances cut at thresh, i.e. the connected components of
\* "no further than thresh"; labels 1..K, less one.  Which component gets
\* which label is scipy's choice.
HierarchyLabels(S, thresh) ==
    { f \in [DOMAIN S -> 0..(n_agents - 1)] :
        /\ Contiguous(f)
        /\ \A i, j \in DOMAIN S : (f[i] = f[j]) <=> (j \in Linked(S, thresh, {i})) }

\* hdbscan.HDBSCAN(..., min_cluster_size, min_samples=1).fit(S).labels_:
\* labels 0..K-1 for the clusters found and -1 for the points in none; a
\* cluster has at least min_cluster_size points, and a single cluster that
\* holds the whole data set is not selected (allow_single_cluster is off).
\* Which points are found dense is the library's choice.
HdbscanLabels(S, min_cluster_size) ==
    { f \in [DOMAIN S -> (-1)..(n_agents - 1)] :
        /\ Contiguous(f)
        /\ Cardinality(LabelsUsed(f)) # 1
        /\ \A c \in LabelsUsed(f) :
              Cardinality({ i \in DOMAIN S : f[i] = c }) >= min_cluster_size }

\* the label assignments _re_eval_clusters can compute (system.py:118-136)
ClusterLabels(S, algo, algo_parameters) ==
    IF algo = "hierarchy" THEN HierarchyLabels(S, algo_parameters[1])
    ELSE HdbscanLabels(S, algo_parameters[3])

\* np.where(clust_labels == cdx)[0]: the agent indices with that label, ascending
RECURSIVE IndicesWhere(_, _, _)
IndicesWhere(f, cdx, i) ==
    IF i >= n_agents THEN <<>>
    ELSE (IF f[i] = cdx THEN <<i>> ELSE <<>>) \o IndicesWhere(f, cdx, i + 1)

\* max(self.clust_labels) + 1
NumClusters(f) ==
    1 + (CHOOSE m \in { f[i] : i \in DOMAIN f } : \A i \in DOMAIN f : f[i] <= m)

\* the clusters dictionary built by the loop of system.py:141-148
BuildClusters(f, ag) ==
    [cdx \in 0..(NumClusters(f) - 1) |-> NewCluster(IndicesWhere(f, cdx, 0), ag)]

\* np.linalg.norm(full_system_state - system_goal, axis=1).mean(axis=0), for
\* one-dimensional agents
AvgGoalDist(S, goal) ==
    Rat(SeqSum([k \in 1..n_agents |-> Abs(S[k - 1][1] - goal[1])]), n_agents)

\* (mutant) the state matrix is not gathered again
ReEvalStale(ag) ==
    /\ full_system_state' = full_system_state
    /\ avg_goal_dist' = AvgGoalDist(full_system_state, system_goal)
    /\ \E labels \in ClusterLabels(full_system_state, clust_algo, clust_algo_params) :
          /\ clust_labels' = labels
          /\ n_clusters' = NumClusters(labels)
          /\ clusters' = BuildClusters(labels, ag)
    /\ cluster_centroids' = [cdx \in DOMAIN clusters' |-> clusters'[cdx].centroid]

\* _re_eval_system and the _re_eval_clusters it ends with, on the agents
\* `ag`; `labels` is what the clustering library answers
ReEvalSystem(ag) ==
    /\ full_system_state' = [i \in AgentIds |-> ag[i].state]
    /\ avg_goal_dist' = AvgGoalDist(full_system_state', system_goal)
    /\ \E labels \in ClusterLabels(full_system_state', clust_algo, clust_algo_params) :
          /\ clust_labels' = labels
          /\ n_clusters' = NumClusters(labels)
          /\ clusters' = BuildClusters(labels, ag)
    /\ cluster_centroids' = [cdx \in DOMAIN clusters' |-> clusters'[cdx].centroid]


\* ------------------------------------------------------------------------
\* MultiAgentSystem
\* ------------------------------------------------------------------------

\* mpc_solver.use_modeling_tool(A, B, n_t, Q, R, P, x0, x_star_in=, umax=,
\* umin=) of src.opt: the single-scale solve with a reference and control
\* bounds, no state bounds and no separation distance.
UseModelingTool(A, B, N, Q, R, P, x0, x_star_in, umax, umin) ==
    ConventionalSolve(A, B, N, Q, R, P, x0, agent_dim, umax, umin,
                      None, None, Some(x_star_in), None)

\* no call in progress
Idle ==
    [op |-> "", pc |-> "idle", args |-> None, pre |-> None, adx |-> 0,
     cost_val |-> Cost(0, 1), ret |-> None, error |-> ""]

Began(op, args) == [Idle EXCEPT !.op = op, !.pc = "loop", !.args = args, !.pre = agents]

\* the call returned `ret`
Ended(c, ret) == [c EXCEPT !.pc = "returned", !.ret = ret]

\* (mutant) the exception is swallowed and the call returns
FailedSilently(c, e) == [c EXCEPT !.pc = "returned"]

\* the call raised the exception `e`
Failed(c, e) == [c EXCEPT !.pc = "raised", !.error = e]

\* What state_gen hands to the constructor: the state generator is outside
\* this repository's core; every agent gets A and B of shape (1, 1) and a
\* state of size 1.
GeneratedAgents ==
    { [i \in AgentIds |-> [A |-> Mat1(d[i]), B |-> Mat1(d[i]),
                           state |-> <<s[i]>>, agent_dim |-> agent_dim]]
      : d \in [AgentIds -> {1, -1}], s \in [AgentIds -> 0..MaxStart] }

\* (clust_algo, clust_algo_params): thresholds 1 and 2, and hdbscan's
\* (alpha, leaf_size, min_cluster_size)
ClusterConfigs ==
    { <<"hierarchy", <<1>>>>, <<"hierarchy", <<2>>>>, <<"hdbscan", <<1, 40, 2>>>> }

Goals == { <<g>> : g \in 1..MaxStart }

\* the calls explored start from states within the range drawn
InRange(ag) == \A i \in DOMAIN ag : MaxAbsVec(ag[i].state) <= MaxStart

\* MultiAgentSystem.__init__: the state after construction
Init ==
    /\ agents \in GeneratedAgents
    /\ system_goal \in Goals
    /\ \E config \in ClusterConfigs :
          clust_algo = config[1] /\ clust_algo_params = config[2]
    /\ full_system_state = [i \in AgentIds |-> agents[i].state]
    /\ avg_goal_dist = AvgGoalDist(full_system_state, system_goal)
    /\ clust_labels \in ClusterLabels(full_system_state, clust_algo, clust_algo_params)
    /\ n_clusters = NumClusters(clust_labels)
    /\ clusters = BuildClusters(clust_labels, agents)
    /\ cluster_centroids = [cdx \in DOMAIN clusters |-> clusters[cdx].centroid]
    /\ call = Ended([Idle EXCEPT !.op = "__init__"], None)
    /\ problem = None /\ entry = "" /\ result = None

\* the caller has taken what the call handed back
Return ==
    /\ call.pc \in {"returned", "raised"}
    /\ call' = Idle
    /\ UNCHANGED <<agents, systemVars, clusters, solverVars>>

\* update_system_simplified: `for cluster in self.clusters` walks the keys
\* of the dictionary, and the first `cluster.centroid` raises on that key;
\* with no cluster the loop body never runs.
UpdateSystemSimplified(step_size) ==
    /\ call.pc = "idle"
    /\ call' = IF DOMAIN clusters # {}
               THEN Failed(Began("update_system_simplified", <<step_size>>),
                           "AttributeError")
               ELSE Ended(Began("update_system_simplified", <<step_size>>), None)
    /\ UNCHANGED <<agents, systemVars, clusters, solverVars>>

\* the arguments (Q, R, P, n_t, umax, umin) of the two MPC steps
MpcArgs(Q, R, P, n_t, umax, umin) ==
    [Q |-> Q, R |-> R, P |-> P, n_t |-> n_t, umax |-> umax, umin |-> umin]

\* update_system_mpc_distributed up to the loop: cost_val = 0.
DistributedBegin(a) ==
    /\ call.pc = "idle"
    /\ InRange(agents)
    /\ call' = Began("update_system_mpc_distributed", a)
    /\ UNCHANGED <<agents, systemVars, clusters, solverVars>>

\* One pass of the loop over self.agents: solve for the agent, add its cost,
\* commit the last column with set_state, re-evaluate the system.  A solve
\* without a solution hands back None, and state_dynamics[:, -1] raises.
DistributedStep ==
    /\ call.op = "update_system_mpc_distributed" /\ call.pc = "loop"
    /\ call.adx < n_agents
    /\ LET agent == agents[call.adx]
           a == call.args
       IN  \E sol \in UseModelingTool(agent.A, agent.B, a.n_t, a.Q, a.R, a.P,
                                      agent.state, system_goal, a.umax, a.umin) :
              IF sol.x = None
              THEN /\ call' = Failed([call EXCEPT
                                        !.cost_val = CostAdd(@, sol.cost_val)],
                                     "TypeError")
                   /\ UNCHANGED <<agents, systemVars, clusters>>
              ELSE /\ agents' = [agents EXCEPT
                                   ![call.adx] = AgentSetState(@, sol.x[Len(sol.x)])]
                   /\ ReEvalSystem(agents')
                   /\ call' = [call EXCEPT !.cost_val = CostAdd(@, sol.cost_val),
                                           !.adx = @ + 1]
                   /\ UNCHANGED <<system_goal, clust_algo, clust_algo_params>>
    /\ UNCHANGED solverVars

\* after the loop: cost_val /= self.n_agents; return avg_goal_dist, cost_val
DistributedReturn ==
    /\ call.op = "update_system_mpc_distributed" /\ call.pc = "loop"
    /\ call.adx = n_agents
    /\ call' = Ended(call, [avg_goal_dist |-> avg_goal_dist,
                            cost_val |-> Cost(call.cost_val.num,
                                              call.cost_val.den * n_agents)])
    /\ UNCHANGED <<agents, systemVars, clusters, solverVars>>

\* the block-diagonal matrix of system.py:218-224 from the agents' blocks
BlockDiag(blocks, rows, cols) ==
    [r \in 1..(rows * n_agents) |->
        [c \in 1..(cols * n_agents) |->
            IF (r - 1) \div rows = (c - 1) \div cols
            THEN blocks[(r - 1) \div rows][((r - 1) % rows) + 1][((c - 1) % cols) + 1]
            ELSE 0]]

\* self.full_system_state.flatten()
Flatten(S) ==
    [k \in 1..(agent_dim * n_agents) |->
        S[(k - 1) \div agent_dim][((k - 1) % agent_dim) + 1]]

\* np.kron(np.ones((self.n_agents)), self.system_goal)
TiledGoal(goal) ==
    [k \in 1..(agent_dim * n_agents) |-> goal[((k - 1) % agent_dim) + 1]]

\* (mutant) every agent gets the first agent's slice
TerminalSliceFirst(x, adx) ==
    [j \in 1..agent_dim |-> x[Len(x)][j]]

\* state_dynamics[adx * agent_dim : (adx + 1) * agent_dim, -1]
TerminalSlice(x, adx) ==
    [j \in 1..agent_dim |-> x[Len(x)][adx * agent_dim + j]]

\* what the joint solve of update_system_mpc can hand back on the state
\* matrix S
JointSolutions(ag, S, goal, a) ==
    UseModelingTool(BlockDiag([i \in AgentIds |-> ag[i].A], agent_dim, agent_dim),
                    BlockDiag([i \in AgentIds |-> ag[i].B], agent_dim, control_dim),
                    a.n_t, a.Q, a.R, a.P, Flatten(S), TiledGoal(goal), a.umax, a.umin)

\* update_system_mpc: one joint solve on the flattened state matrix, every
\* agent gets its slice of the last column, one re-evaluation.  A solve
\* without a solution hands back None, and the first slice raises.
UpdateSystemMpc(a) ==
    /\ call.pc = "idle"
    /\ InRange(agents)
    /\ \E sol \in JointSolutions(agents, full_system_state, system_goal, a) :
          IF sol.x = None
          THEN /\ call' = Failed(Began("update_system_mpc", a), "TypeError")
               /\ UNCHANGED <<agents, systemVars, clusters>>
          ELSE /\ agents' = [i \in AgentIds |->
                                AgentSetState(agents[i], TerminalSlice(sol.x, i))]
               /\ ReEvalSystem(agents')
               /\ call' = Ended(Began("update_system_mpc", a),
                                [avg_goal_dist |-> avg_goal_dist',
                                 cost_val |-> sol.cost_val])
               /\ UNCHANGED <<system_goal, clust_algo, clust_algo_params>>
    /\ UNCHANGED solverVars

\* The arguments update_system_mpc_distributed is called with, as
\* (Q, R, P, n_t, (umax, umin)).  On each of them the minimisers over the
\* integer lattice are minimisers over the reals: control weight alone;
\* terminal weight alone, over two steps and under control bounds; state and
\* terminal weight; an empty control interval; no weight at all and a state
\* weight alone, under control bounds, where every admissible terminal
\* state is optimal.
StepChoices ==
    { <<0, 1, 0, 1, <<None, None>>>>,
      <<0, 1, 0, 2, <<Some(1), Some(-1)>>>>,
      <<0, 0, 1, 2, <<Some(1), Some(-1)>>>>,
      <<0, 0, 1, 1, <<Some(1), Some(-1)>>>>,
      <<1, 0, 1, 1, <<None, None>>>>,
      <<0, 1, 0, 1, <<Some(-1), Some(1)>>>>,
      <<0, 0, 0, 1, <<Some(1), Some(-1)>>>>,
      <<1, 0, 0, 1, <<Some(1), Some(-1)>>>> }

DistributedArgs ==
    { MpcArgs(Mat1(c[1]), Mat1(c[2]), Mat1(c[3]), c[4], c[5][1], c[5][2])
      : c \in StepChoices }

\* the same weights for every agent, as one block-diagonal matrix
Decoupled(a) ==
    MpcArgs(BlockDiag([i \in AgentIds |-> a.Q], agent_dim, agent_dim),
            BlockDiag([i \in AgentIds |-> a.R], control_dim, control_dim),
            BlockDiag([i \in AgentIds |-> a.P], agent_dim, agent_dim),
            a.n_t, a.umax, a.umin)

\* a terminal weight that couples the two agents
CoupledArgs ==
    MpcArgs(BlockDiag([i \in AgentIds |-> Mat1(0)], agent_dim, agent_dim),
            BlockDiag([i \in AgentIds |-> Mat1(0)], control_dim, control_dim),
            [r \in 1..(agent_dim * n_agents) |->
                [c \in 1..(agent_dim * n_agents) |-> IF r = c THEN 1 ELSE -1]],
            1, None, None)

\* the arguments update_system_mpc is called with
JointArgs == { Decoupled(a) : a \in DistributedArgs } \cup { CoupledArgs }

Next ==
    \/ Return
    \/ \E step_size \in {1} : UpdateSystemSimplified(step_size)
    \/ \E a \in DistributedArgs : DistributedBegin(a)
    \/ DistributedStep
    \/ DistributedReturn
    \/ \E a \in JointArgs : UpdateSystemMpc(a)

Spec == Init /\ [][Next]_vars

\* ------------------------------------------------------------------------
\* Agents and clusters on their own: a client builds agents and clusters
\* over them and calls their methods
\* ------------------------------------------------------------------------

\* the key lists of the agents dictionaries the clusters are built over
Memberships == { <<<<0, 1>>>>, <<<<0>>, <<1>>>>, <<<<1>>, <<0, 1>>>> }

\* control values and states handed to the methods
ControlVals == { <<u>> : u \in (-1)..1 }

InputStates == { <<v>> : v \in {-MaxStart, 0, MaxStart} }

EntityInit ==
    /\ agents \in GeneratedAgents
    /\ \E ms \in Memberships :
          clusters = [cdx \in 0..(Len(ms) - 1) |-> NewCluster(ms[cdx + 1], agents)]
    /\ call = Idle
    /\ system_goal = None /\ clust_algo = None /\ clust_algo_params = None
    /\ full_system_state = None /\ avg_goal_dist = None /\ clust_labels = None
    /\ n_clusters = None /\ cluster_centroids = None
    /\ problem = None /\ entry = "" /\ result = None

\* agent.propagate_input(control_val)
AgentPropagateInput(i, control_val) ==
    /\ call.pc = "idle"
    /\ agents' = [agents EXCEPT ![i] = AgentPropagate(@, control_val)]
    /\ InRange(agents')
    /\ call' = Ended([Began("LinearAgentNd.propagate_input", control_val)
                        EXCEPT !.adx = i], None)
    /\ UNCHANGED <<systemVars, clusters, solverVars>>

\* agent.set_state(input_state)
AgentSetStateCall(i, input_state) ==
    /\ call.pc = "idle"
    /\ agents' = [agents EXCEPT ![i] = AgentSetState(@, input_state)]
    /\ call' = Ended([Began("LinearAgentNd.set_state", input_state)
                        EXCEPT !.adx = i], None)
    /\ UNCHANGED <<systemVars, clusters, solverVars>>

\* cluster.propagate_input(control_val): every member agent propagates, then
\* update_centroid
ClusterPropagateInput(cdx, control_val) ==
    /\ call.pc = "idle"
    /\ agents' = PropagateToMembers(clusters[cdx], agents, control_val)
    /\ InRange(agents')
    /\ clusters' = [clusters EXCEPT ![cdx] = UpdateCentroid(@, agents')]
    /\ call' = Ended([Began("LinearClusterNd.propagate_input", control_val)
                        EXCEPT !.adx = cdx], None)
    /\ UNCHANGED <<systemVars, solverVars>>

\* cluster.update_centroid()
ClusterUpdateCentroid(cdx) ==
    /\ call.pc = "idle"
    /\ clusters' = [clusters EXCEPT ![cdx] = UpdateCentroid(@, agents)]
    /\ call' = Ended([Began("LinearClusterNd.update_centroid", None)
                        EXCEPT !.adx = cdx], clusters'[cdx].centroid)
    /\ UNCHANGED <<agents, systemVars, solverVars>>

EntityNext ==
    \/ Return
    \/ \E i \in AgentIds, control_val \in ControlVals : AgentPropagateInput(i, control_val)
    \/ \E i \in AgentIds, input_state \in InputStates : AgentSetStateCall(i, input_state)
    \/ \E cdx \in DOMAIN clusters, control_val \in ControlVals :
          ClusterPropagateInput(cdx, control_val)
    \/ \E cdx \in DOMAIN clusters : ClusterUpdateCentroid(cdx)

EntitySpec == EntityInit /\ [][EntityNext]_vars

\* ------------------------------------------------------------------------
\* The solver on its own: a problem is drawn, the entry points are called
\* ------------------------------------------------------------------------

\* longest horizon drawn
MaxHorizon == 2

\* (Q, R, P): large state weight alone, large state and terminal weight,
\* all three, control weight alone
WeightTriples == { <<10, 0, 0>>, <<10, 0, 10>>, <<1, 1, 1>>, <<0, 1, 0>> }

\* (xmin, xmax): none, an upper bound, an interval, an empty interval
StateBoundPairs ==
    { <<None, None>>, <<None, Some(<<3>>)>>,
      <<Some(<<1>>), Some(<<3>>)>>, <<Some(<<3>>), Some(<<1>>)>> }

\* (umax, umin): none, an interval, an empty interval
ControlBoundPairs == { <<None, None>>, <<Some(1), Some(-1)>>, <<Some(-1), Some(1)>> }

\* The arguments every entry point takes (the meso half of the two-scale
\* call), for one-dimensional states.
MainArgs ==
    { [A |-> Mat1(a), B |-> Mat1(1), N |-> n,
       Q |-> Mat1(w[1]), R |-> Mat1(w[2]), P |-> Mat1(w[3]),
       x0 |-> <<s>>, adim |-> 1,
       umax |-> ub[1], umin |-> ub[2], xmin |-> xb[1], xmax |-> xb[2],
       x_star_in |-> g, coll_d |-> None]
      : a \in {1, -1}, n \in 1..MaxHorizon, w \in WeightTriples,
        s \in {0, MaxStart}, ub \in ControlBoundPairs, xb \in StateBoundPairs,
        g \in {None, Some(<<5>>)} }

\* Several agents in one state vector, with and without a separation
\* distance: the only inputs on which coll_d adds constraints.
StackedArgs ==
    { [A |-> Eye(n), B |-> Eye(n), N |-> 1,
       Q |-> Eye(n), R |-> Eye(n), P |-> Eye(n),
       x0 |-> [i \in 1..n |-> i % 2], adim |-> 1,
       umax |-> None, umin |-> None, xmin |-> None, xmax |-> None,
       x_star_in |-> None, coll_d |-> d]
      : n \in {2, 3}, d \in {None, Some(1)} }

\* The arguments of the coupling term and of the micro half; the micro
\* state starts on its upper bound when there is one.
CouplingArgs ==
    { [N_cpl |-> nc, L |-> l, L_lambda |-> 1,
       A_mic |-> Mat1(1), B_mic |-> Mat1(1), N_mic |-> n, R_mic |-> Mat1(r),
       x0_mic |-> <<3>>, umax_mic |-> None, umin_mic |-> ulo,
       xmin_mic |-> xb[1], xmax_mic |-> xb[2]]
      : nc \in {1, MaxHorizon + 2}, l \in {None, Some(Mat1(1))},
        n \in 1..MaxHorizon, r \in {1, 2}, ulo \in {None, Some(1)},
        xb \in { <<None, None>>, <<None, Some(<<3>>)>>, <<Some(<<3>>), Some(<<1>>)>> } }

PlainCoupling ==
    [N_cpl |-> 1, L |-> None, L_lambda |-> 1,
     A_mic |-> Mat1(1), B_mic |-> Mat1(1), N_mic |-> 1, R_mic |-> Mat1(1),
     x0_mic |-> <<3>>, umax_mic |-> None, umin_mic |-> None,
     xmin_mic |-> None, xmax_mic |-> None]

\* Every main problem without coupling, and every coupling on the main
\* problems that have all three weights and no control bounds.
Problems ==
    { [main |-> m, cpl |-> PlainCoupling] : m \in MainArgs \cup StackedArgs }
    \cup { [main |-> m, cpl |-> c]
            : m \in { q \in MainArgs : q.A = Mat1(1) /\ q.Q = Mat1(1) /\ q.umax = None
                                        /\ (q.xmin = None) = (q.xmax = None) },
              c \in CouplingArgs }

SolverInit ==
    /\ problem \in Problems
    /\ entry = ""
    /\ result = None
    /\ agents = None /\ clusters = None /\ call = Idle
    /\ system_goal = None /\ clust_algo = None /\ clust_algo_params = None
    /\ full_system_state = None /\ avg_goal_dist = None /\ clust_labels = None
    /\ n_clusters = None /\ cluster_centroids = None

CallConventional ==
    LET m == problem.main
    IN  /\ entry = ""
        /\ result' \in ConventionalSolve(m.A, m.B, m.N, m.Q, m.R, m.P, m.x0, m.adim,
                                          m.umax, m.umin, m.xmin, m.xmax,
                                          m.x_star_in, m.coll_d)
        /\ entry' = "conventional_solve"
        /\ UNCHANGED <<problem, agents, systemVars, clusters, call>>

CallMicrocoupling ==
    LET m == problem.main
        c == problem.cpl
    IN  /\ entry = ""
        /\ result' \in MicrocouplingSolve(m.A, m.B, m.N, m.Q, m.R, m.P, m.x0, m.adim,
                                           c.N_cpl, c.L, c.L_lambda,
                                           m.umax, m.umin, m.xmin, m.xmax,
                                           m.x_star_in, m.coll_d)
        /\ entry' = "microcoupling_solve"
        /\ UNCHANGED <<problem, agents, systemVars, clusters, call>>

CallMesocoupling ==
    LET m == problem.main
        c == problem.cpl
    IN  /\ entry = ""
        /\ result' \in MesocouplingSolve(m.A, m.B, m.N, m.Q, m.R, m.P, m.x0, m.adim,
                                          c.A_mic, c.B_mic, c.N_mic, c.R_mic, c.x0_mic,
                                          c.L, c.L_lambda,
                                          m.umax, m.umin, c.umax_mic, c.umin_mic,
                                          m.xmin, m.xmax, c.xmin_mic, c.xmax_mic,
                                          m.x_star_in, m.coll_d)
        /\ entry' = "mesocoupling_solve"
        /\ UNCHANGED <<problem, agents, systemVars, clusters, call>>

SolverNext == CallConventional \/ CallMicrocoupling \/ CallMesocoupling

SolverSpec == SolverInit /\ [][SolverNext]_vars

\* ------------------------------------------------------------------------
\* Claims about the solver (checked under SolverSpec)
\* ------------------------------------------------------------------------

Called(e) == entry = e

\* the state trajectories a call handed back, as rows: trajectory, horizon,
\* xmin, xmax, name
ReturnedStateRows ==
    IF entry = "mesocoupling_solve"
    THEN { <<result.x_mes, problem.main.N, problem.main.xmin, problem.main.xmax, "x_mes">>,
           <<result.x_mic, problem.cpl.N_mic, problem.cpl.xmin_mic, problem.cpl.xmax_mic,
             "x_mic">> }
    ELSE IF entry = "" THEN {}
    ELSE { <<result.x, problem.main.N, problem.main.xmin, problem.main.xmax, "x">> }

\* No trajectory of the dynamics from x0 meets the state bounds in every
\* column 0..N and the control bounds in every column.
BoundsUnmeetable(A, B, N, x0, xmin, xmax, umax, umin) ==
    LET r == StateRadius(A, B, N, x0, None, xmin, xmax, umax, umin)
    IN  \A s \in Dynamics(A, B, N, x0, r, ControlRadius(A, r, umax, umin)) :
            ~ (StateBounds(s.x, 0..N, xmin, xmax) /\ ControlBounds(s.u, umax, umin))

MainUnmeetable ==
    LET m == problem.main
    IN  BoundsUnmeetable(m.A, m.B, m.N, m.x0, m.xmin, m.xmax, m.umax, m.umin)

MicroUnmeetable ==
    LET c == problem.cpl
    IN  /\ c.L # None
        /\ BoundsUnmeetable(c.A_mic, c.B_mic, c.N_mic, c.x0_mic,
                            c.xmin_mic, c.xmax_mic, c.umax_mic, c.umin_mic)

NoTrajectoryReturned ==
    /\ result.cost_val.inf
    /\ IF entry = "mesocoupling_solve"
       THEN result.x_mes = None /\ result.u_mes = None
            /\ result.x_mic = None /\ result.u_mic = None
       ELSE result.x = None /\ result.u = None

\* C3: in every entry point, a problem whose bounds cannot be met together
\* (the bounds of the micro trajectory count when the micro half is part of
\* the two-scale program) hands back no state or control trajectory and an
\* infinite cost, which no successful solve has.
C3_UnmeetableBoundsFail ==
    /\ (entry # "" /\ MainUnmeetable) => NoTrajectoryReturned
    /\ (entry = "mesocoupling_solve" /\ MicroUnmeetable) => NoTrajectoryReturned
    /\ (entry # "" /\ result.raised = "" /\ ~ result.cost_val.inf)
         => ~ NoTrajectoryReturned

\* C3, on the single-scale and the micro-with-coupling entry points and on
\* the meso half alone: there the statement holds.
C3_MainUnmeetableFail ==
    (entry # "" /\ MainUnmeetable) => NoTrajectoryReturned

\* C4: every column 0..N of every returned trajectory is inside the state
\* bounds supplied for it, in all three entry points, the micro trajectory
\* of the two-scale solve included.
C4_ReturnedWithinBounds ==
    \A row \in ReturnedStateRows :
        row[1] # None => StateBounds(row[1], 0..row[2], row[3], row[4])

\* C4, without the last column of the two-scale micro trajectory: this much
\* the code guarantees.
C4_WithinBoundsExceptMicroTerminal ==
    \A row \in ReturnedStateRows :
        row[1] # None =>
            StateBounds(row[1],
                        IF row[5] = "x_mic" THEN 0..(row[2] - 1) ELSE 0..row[2],
                        row[3], row[4])

\* the single-step problem of C5: A = 1, B = 1, x0 = 0, x* = 5, N = 1,
\* R = 0, a large Q, no bounds
SingleStepToGoal ==
    LET m == problem.main
    IN  /\ entry = "conventional_solve"
        /\ m.A = Mat1(1) /\ m.B = Mat1(1) /\ m.N = 1 /\ m.x0 = <<0>>
        /\ m.x_star_in = Some(<<5>>) /\ m.R = Mat1(0) /\ m.Q = Mat1(10)
        /\ m.umax = None /\ m.umin = None /\ m.xmin = None /\ m.xmax = None

\* C5: on that problem the returned terminal state x[1] is the goal, and
\* the returned cost is the objective at the returned trajectory.
C5_SingleStepReachesGoal ==
    SingleStepToGoal =>
        /\ result.x # None
        /\ result.x[2] = Val(problem.main.x_star_in)
        /\ CostEq(result.cost_val,
                  Cost(ConventionalObjective(result, 1, problem.main.Q, problem.main.R,
                                             problem.main.P, problem.main.x_star_in), 2))

\* C5, the half that holds: the returned cost is the objective at the
\* returned trajectory, for every successful single-scale solve.
C5_CostIsObjective ==
    (entry = "conventional_solve" /\ result.x # None) =>
        CostEq(result.cost_val,
               Cost(ConventionalObjective(result, problem.main.N, problem.main.Q,
                                          problem.main.R, problem.main.P,
                                          problem.main.x_star_in), 2))

\* the meso-only program with the same meso inputs
MesoOnly ==
    LET m == problem.main
    IN  ConventionalSolve(m.A, m.B, m.N, m.Q, m.R, m.P, m.x0, m.adim,
                          m.umax, m.umin, m.xmin, m.xmax, m.x_star_in, None)

\* C7: the two-scale solve without a coupling weight matrix returns empty
\* micro trajectories, and its meso trajectories and its cost are a solution
\* and the cost of the meso-only program, whatever the micro arguments are:
\* no micro cost and no micro constraint took part.
C7_NoCouplingMesoOnly ==
    (entry = "mesocoupling_solve" /\ problem.cpl.L = None) =>
        /\ result.raised = ""
        /\ result.x_mic = None /\ result.u_mic = None
        /\ \E r \in MesoOnly :
              /\ r.x = result.x_mes /\ r.u = result.u_mes
              /\ CostEq(r.cost_val, result.cost_val)

\* C7 happens: a two-scale solve without L, with micro bounds that no
\* trajectory could meet, returned a meso trajectory.
C7_Witness ==
    /\ entry = "mesocoupling_solve" /\ problem.cpl.L = None
    /\ problem.cpl.xmin_mic # None /\ problem.cpl.xmax_mic # None
    /\ ~ VecLe(Val(problem.cpl.xmin_mic), Val(problem.cpl.xmax_mic))
    /\ result.x_mes # None

\* ------------------------------------------------------------------------
\* Claims about agents and clusters (checked under EntitySpec)
\* ------------------------------------------------------------------------

\* the call that just returned
Completed(op) == call.op = op /\ call.pc = "returned"

\* C9: after agent.propagate_input(u) the agent's state is A state_prev +
\* B u with the agent's own A and B, its A and B are what they were, and
\* every other agent is what it was.
C9_PropagateInputFrame ==
    Completed("LinearAgentNd.propagate_input") =>
        LET before == call.pre[call.adx]
            after == agents[call.adx]
        IN  /\ after.state = [j \in 1..agent_dim |->
                                SeqSum([k \in 1..agent_dim |->
                                          before.A[j][k] * before.state[k]])
                                + SeqSum([k \in 1..control_dim |->
                                            before.B[j][k] * call.args[k]])]
            /\ after.A = before.A /\ after.B = before.B
            /\ \A i \in AgentIds \ {call.adx} : agents[i] = call.pre[i]

\* C9 happens: an agent with A = -1 and a non-zero state took a non-zero
\* control
C9_Witness ==
    /\ Completed("LinearAgentNd.propagate_input")
    /\ call.pre[call.adx].A = Mat1(-1)
    /\ call.pre[call.adx].state # <<0>>
    /\ call.args # <<0>>

\* the cluster's centroid is the mean of its member agents' states as the
\* agents hold them now
CentroidIsMeanOfMembers(cluster) ==
    \A j \in 1..agent_dim :
        cluster.centroid[j].num * cluster.n_agents
          = cluster.centroid[j].den
              * SeqSum([idx \in 1..cluster.n_agents |->
                          agents[cluster.agents[idx]].state[j]])

IsMember(cluster, i) == \E idx \in 1..cluster.n_agents : cluster.agents[idx] = i

\* C8: after cluster.update_centroid() and after
\* cluster.propagate_input(control) the centroid of that cluster is the mean
\* of its member agents' current states; propagate_input has moved every
\* member once by the same control and no other agent.
C8_CentroidIsMean ==
    /\ Completed("LinearClusterNd.update_centroid")
         => /\ CentroidIsMeanOfMembers(clusters[call.adx])
            /\ agents = call.pre
    /\ Completed("LinearClusterNd.propagate_input")
         => /\ CentroidIsMeanOfMembers(clusters[call.adx])
            /\ \A i \in AgentIds :
                  agents[i].state =
                      IF IsMember(clusters[call.adx], i)
                      THEN VecAdd(MatVec(call.pre[i].A, call.pre[i].state),
                                  MatVec(call.pre[i].B, call.args))
                      ELSE call.pre[i].state

\* C8 happens: a cluster of two agents in different states took a non-zero
\* control that moved both
C8_Witness ==
    /\ Completed("LinearClusterNd.propagate_input")
    /\ clusters[call.adx].n_agents = 2
    /\ call.args # <<0>>
    /\ agents[0].state # agents[1].state
    /\ \A i \in AgentIds : agents[i].state # call.pre[i].state

\* ------------------------------------------------------------------------
\* Claims about the system (checked under Spec)
\* ------------------------------------------------------------------------

\* C6: after every cluster re-evaluation every agent has a label in
\* 0..K-1, every label 0..K-1 is held by some agent, and every agent is a
\* member of exactly one cluster of the clusters map.
C6_LabelsPartition ==
    /\ \A i \in AgentIds : clust_labels[i] \in 0..(n_clusters - 1)
    /\ \A cdx \in 0..(n_clusters - 1) : \E i \in AgentIds : clust_labels[i] = cdx
    /\ \A cdx \in DOMAIN clusters : clusters[cdx].n_agents > 0
    /\ \A i \in AgentIds :
          Cardinality({ cdx \in DOMAIN clusters : IsMember(clusters[cdx], i) }) = 1

\* C6 under 'hierarchy' alone: there the assignment is a partition.
C6_HierarchyPartition == clust_algo = "hierarchy" => C6_LabelsPartition

\* the system state is the one derived from the agents as they are now
Consistent ==
    /\ \A i \in AgentIds : full_system_state[i] = agents[i].state
    /\ avg_goal_dist.num * n_agents
         = avg_goal_dist.den
             * SeqSum([k \in 1..n_agents |->
                         Abs(full_system_state[k - 1][1] - system_goal[1])])
    /\ clust_labels \in ClusterLabels(full_system_state, clust_algo, clust_algo_params)
    /\ n_clusters = NumClusters(clust_labels)
    /\ DOMAIN clusters = 0..(n_clusters - 1)
    /\ DOMAIN cluster_centroids = DOMAIN clusters
    /\ \A cdx \in DOMAIN clusters :
          /\ \A i \in AgentIds : IsMember(clusters[cdx], i) <=> clust_labels[i] = cdx
          /\ CentroidIsMeanOfMembers(clusters[cdx])
          /\ cluster_centroids[cdx] = clusters[cdx].centroid

\* C10: when construction or a control step has completed, and after each
\* agent's commit inside update_system_mpc_distributed, the state matrix,
\* the average goal distance, the labels, the clusters and the centroids
\* are the ones derived from the agents' current states.
C10_ConsistentAfterSteps ==
    (\/ call.pc = "returned"
     \/ call.op = "update_system_mpc_distributed" /\ call.pc = "loop" /\ call.adx > 0)
        => Consistent

\* C10 happens: inside update_system_mpc_distributed the first agent has
\* committed a new state and the second has not been solved for yet
C10_Witness ==
    /\ call.op = "update_system_mpc_distributed" /\ call.pc = "loop" /\ call.adx = 1
    /\ agents[0].state # call.pre[0].state
    /\ n_clusters > 0

\* the block of one agent in a joint weight matrix
Block(M, size) == [r \in 1..size |-> [c \in 1..size |-> M[r][c]]]

\* the per-agent arguments behind the joint arguments `a`
PerAgent(a) ==
    MpcArgs(Block(a.Q, agent_dim), Block(a.R, control_dim), Block(a.P, agent_dim),
            a.n_t, a.umax, a.umin)

\* the joint weights are the same block for every agent and nothing else
IsDecoupled(a) == a = Decoupled(PerAgent(a))

MpcSteps == { "update_system_mpc", "update_system_mpc_distributed" }

\* the arguments of one agent's program in the step called
StepArgs == IF call.op = "update_system_mpc" THEN PerAgent(call.args) ELSE call.args

\* what the solve of agent i's own program, from the state the agent had
\* when the step was called, can hand back
AgentOptima(i) ==
    UseModelingTool(call.pre[i].A, call.pre[i].B, StepArgs.n_t,
                    StepArgs.Q, StepArgs.R, StepArgs.P,
                    call.pre[i].state, system_goal, StepArgs.umax, StepArgs.umin)

\* the last column of a solved trajectory
Terminal(sol) == sol.x[Len(sol.x)]

\* agent i holds a terminal state that solves its own program
HoldsSolvedTerminal(i) ==
    \E sol \in AgentOptima(i) : sol.x # None /\ agents[i].state = Terminal(sol)

\* the program of the step has no solution: the control bounds are the only
\* constraints besides the dynamics, and they bind every agent alike
NoSolution == \E i \in AgentIds : \E sol \in AgentOptima(i) : sol.x = None

\* C2: when the program solved inside update_system_mpc or
\* update_system_mpc_distributed has no solution, the call does not return:
\* it is still before its first solve or it has raised, no (distance, cost)
\* pair is handed back, and every agent holds the state it had or a solved
\* terminal state of its own program.
C2_SolverFailureIsAnError ==
    (call.op \in MpcSteps /\ NoSolution) =>
        /\ call.pc = "raised" \/ (call.pc = "loop" /\ call.adx = 0)
        /\ call.ret = None
        /\ \A i \in AgentIds : agents[i] = call.pre[i] \/ HoldsSolvedTerminal(i)
        /\ call.op = "update_system_mpc" => agents = call.pre

\* C2 happens: a distributed step over an empty control interval has raised
\* with an infinite cost at hand
C2_Witness ==
    /\ call.op = "update_system_mpc_distributed" /\ call.pc = "raised"
    /\ NoSolution
    /\ call.cost_val.inf
    /\ call.error = "TypeError"

RECURSIVE SumOfOptimalCosts(_)
\* the optimal costs of the agents' own programs, agents i..n_agents-1, added
SumOfOptimalCosts(i) ==
    IF i >= n_agents THEN Cost(0, 1)
    ELSE CostAdd((CHOOSE sol \in AgentOptima(i) : TRUE).cost_val,
                 SumOfOptimalCosts(i + 1))

\* a step on decoupled agents has returned
DecoupledStepDone ==
    \/ Completed("update_system_mpc") /\ IsDecoupled(call.args)
    \/ Completed("update_system_mpc_distributed")

StartLabels ==
    CHOOSE f \in ClusterLabels([i \in AgentIds |-> call.pre[i].state],
                               clust_algo, clust_algo_params) : TRUE

StartClusters == BuildClusters(StartLabels, call.pre)

\* update_system_simplified was called on a system with at least one cluster
SimplifiedOnClusters ==
    call.op = "update_system_simplified" /\ DOMAIN StartClusters # {}

\* agent i has taken, once, the control step_size * (goal - centroid) of the
\* cluster `cluster` it started in: n * state = n * A state_prev
\* + B step_size * (n * goal - n * centroid), n the size of the cluster
TookClusterControl(i, cluster, step_size) ==
    \A j \in 1..agent_dim :
        cluster.n_agents * agents[i].state[j]
          = cluster.n_agents * MatVec(call.pre[i].A, call.pre[i].state)[j]
            + SeqSum([k \in 1..control_dim |->
                        call.pre[i].B[j][k] * step_size
                          * (cluster.n_agents * system_goal[k] - cluster.centroid[k].num)])

\* C11: update_system_simplified(step_size) on a system with at least one
\* cluster completes, every agent has taken exactly one control input,
\* step_size * (goal - centroid) with the centroid of the cluster the agent
\* was in when the call started, and the system has been re-evaluated.
C11_SimplifiedStepCompletes ==
    SimplifiedOnClusters =>
        /\ call.pc = "returned"
        /\ \A cdx \in DOMAIN StartClusters : \A i \in AgentIds :
              IsMember(StartClusters[cdx], i)
                  => TookClusterControl(i, StartClusters[cdx], call.args[1])
        /\ Consistent

\* C11, what the code does instead: on a system with at least one cluster
\* the call raises on the first key of the clusters dictionary, and no agent
\* and no part of the system state has changed.
C11_SimplifiedStepRaises ==
    SimplifiedOnClusters =>
        /\ call.pc = "raised" /\ call.error = "AttributeError"
        /\ agents = call.pre
        /\ { clusters[cdx] : cdx \in DOMAIN clusters }
             = { StartClusters[cdx] : cdx \in DOMAIN StartClusters }
        /\ Consistent

\* update_system_simplified was called on clusters, away from the goal
C11_Called ==
    /\ SimplifiedOnClusters
    /\ \E i \in AgentIds : agents[i].state # system_goal

====
